---- MODULE Spec2Model ----
(***************************************************************************)
(* listup_jorei: the sequential crawl of src/main.rs.  main() asks the     *)
(* list API for numFound, then walks the pages 0..=numFound/rows; for each *)
(* id of a page it fetches the detail, converts it, writes <id>.json and   *)
(* appends a summary to the index; it sleeps after every page and flushes  *)
(* the index after the last one.  Every `?` returns Err from main, every   *)
(* failed unwrap / index / division panics.                                *)
(***************************************************************************)
EXTENDS Integers, Sequences, FiniteSets, TLC

VARIABLES start, end, rows, corpus, pc, fault, all_size, page_count, n,
          list_resp_num_found, id_lst, id, jorei_info, data, files,
          index_file, flushed, trace, requests

vars == <<start, end, rows, corpus, pc, fault, all_size, page_count, n,
          list_resp_num_found, id_lst, id, jorei_info, data, files,
          index_file, flushed, trace, requests>>

(* ------------------------------ bounds -------------------------------- *)
MaxT == 3
MaxId == 3
MaxRows == 4

Ids == 1..MaxId

\* Option<usize> is a sequence of length 0 (None) or 1 (Some).
YearOpts == {<<>>, <<5>>}

RECURSIVE SeqsUpTo(_, _)
SeqsUpTo(S, k) ==
  IF k = 0 THEN {<<>>}
  ELSE LET shorter == SeqsUpTo(S, k - 1)
       IN  shorter \cup {Append(s, x) : s \in {t \in shorter : Len(t) = k - 1}, x \in S}

Min(a, b) == IF a < b THEN a ELSE b

(* --------------------------- pure functions --------------------------- *)
RECURSIVE Digits(_)
\* the decimal digits of y, as `{y}` prints them
Digits(y) == IF y < 10 THEN <<y>> ELSE Append(Digits(y \div 10), y % 10)

RECURSIVE PadLeft(_, _)
PadLeft(s, w) == IF Len(s) >= w THEN s ELSE PadLeft(<<0>> \o s, w)

\* format!("{y:0>4}") for Some(y), "*" for None
YearString(opt) == IF opt = <<>> THEN <<"*">> ELSE PadLeft(Digits(opt[1]), 4)

\* faulty variant: start= carries the page index, not the record offset
gen_list_url_offset_is_page(s, e, k, r) ==
  [start_s |-> YearString(s), end_s |-> YearString(e), start |-> k, rows |-> r]

\* faulty variant: start= is one page ahead
gen_list_url_next_page(s, e, k, r) ==
  [start_s |-> YearString(s), end_s |-> YearString(e), start |-> r * (k + 1), rows |-> r]

\* the variable parts of the list URL: date bounds, start=, rows=
gen_list_url(s, e, k, r) ==
  [start_s |-> YearString(s), end_s |-> YearString(e), start |-> r * k, rows |-> r]

\* the detail URL selects by ids:<id>
gen_jorei_url(i) == [ids |-> i]

\* faulty variant: unwrap_or_default() in place of unwrap()
gen_jorei_data_default(docs) ==
  <<"ok", [id |-> docs.id,
           file_type |-> IF docs.file_type = <<>> THEN "" ELSE docs.file_type[1]]>>

\* the field mapping; file_type is unwrapped, which panics on None
gen_jorei_data(docs) ==
  IF docs.file_type = <<>>
  THEN <<"panic", [id |-> docs.id, file_type |-> ""]>>
  ELSE <<"ok", [id |-> docs.id, file_type |-> docs.file_type[1]]>>

\* the index summary of a detail record
gen_jorei_info(docs) == [id |-> docs.id]

(* ----------------------------- remote API ----------------------------- *)
\* the docs a list query selects: rows records from offset start
ListDocs(url) == SubSeq(corpus, url.start + 1, Min(url.start + url.rows, Len(corpus)))

\* numFound of a later response may differ from the one at bootstrap
NumFoundLater == {Len(corpus), Len(corpus) + 1}

\* the docs lists a detail query may come back with
DetailDocs(url) ==
  {<<>>, <<[id |-> url.ids, file_type |-> <<>>]>>,
         <<[id |-> url.ids, file_type |-> <<"html">>]>>}

\* one attempted step of the run, in the order the steps were attempted
Event(op, page, ident, ok) == [op |-> op, n |-> page, id |-> ident, ok |-> ok]

NoData == [id |-> 0, file_type |-> ""]
NoResponse == [received |-> FALSE, docs |-> <<>>]

\* File::create truncates or creates <name>.json, then the content is written
WriteFile(fs, name, content) == {f \in fs : f.name # name} \cup {[name |-> name, content |-> content]}

\* faulty variant: the last page index of an exclusive ceiling range
PageCountExclusive(total, r) == (total - 1) \div r

\* the last page index of 0..=(all_size / rows)
PageCount(total, r) == total \div r

\* faulty variant: the ids in reverse order
IdListReversed(docs) == [i \in 1..Len(docs) |-> docs[Len(docs) + 1 - i]]

\* docs.iter().map(|d| &d.id): the ids in response order
IdList(docs) == docs

\* faulty variant: a failed write_docs skips the record and the loop goes on
TryErrSkipRecord(op) == IF op = "write" THEN "next_id" ELSE "aborted"

\* `?` on an Err: main returns the error, whatever the step
TryErr(op) == "aborted"

(* -------------------------------- Init -------------------------------- *)
Init ==
  /\ start \in YearOpts
  /\ end \in YearOpts
  /\ rows \in 0..MaxRows
  /\ corpus \in SeqsUpTo(Ids, MaxT)
  /\ pc = "bootstrap"
  /\ fault = "none"
  /\ all_size = 0
  /\ page_count = 0
  /\ n = 0
  /\ list_resp_num_found = 0
  /\ id_lst = <<>>
  /\ id = 0
  /\ jorei_info = NoResponse
  /\ data = NoData
  /\ files = {}
  /\ index_file = <<>>
  /\ flushed = 0
  /\ trace = <<>>
  /\ requests = <<>>

args == <<start, end, rows, corpus>>

(* ------------------------------ actions ------------------------------- *)
\* lines 226-231: the bootstrap list query, page 0
Bootstrap ==
  /\ pc = "bootstrap"
  /\ LET url == gen_list_url(start, end, 0, rows) IN
     /\ requests' = Append(requests, [phase |-> "bootstrap", n |-> 0, url |-> url])
     /\ \/ /\ all_size' = Len(corpus)
           /\ pc' = "gen_file"
           /\ fault' = fault
           /\ trace' = Append(trace, Event("bootstrap", 0, 0, TRUE))
        \/ /\ all_size' = all_size
           /\ pc' = TryErr("bootstrap")
           /\ fault' = "FetchError"
           /\ trace' = Append(trace, Event("bootstrap", 0, 0, FALSE))
  /\ UNCHANGED <<args, page_count, n, list_resp_num_found, id_lst, id, jorei_info,
                 data, files, index_file, flushed>>

\* line 235: the index file is opened
GenFileValueLst ==
  /\ pc = "gen_file"
  /\ \/ /\ pc' = "range"
        /\ fault' = fault
        /\ trace' = Append(trace, Event("open", 0, 0, TRUE))
     \/ /\ pc' = TryErr("open")
        /\ fault' = "IOError"
        /\ trace' = Append(trace, Event("open", 0, 0, FALSE))
  /\ UNCHANGED <<args, all_size, page_count, n, list_resp_num_found, id_lst, id,
                 jorei_info, data, files, index_file, flushed, requests>>

\* line 237: the page range 0..=(all_size / rows); rows = 0 divides by zero
PageRange ==
  /\ pc = "range"
  /\ IF rows = 0
     THEN /\ pc' = "panicked"
          /\ fault' = "DivideByZero"
          /\ UNCHANGED <<page_count, n>>
     ELSE /\ page_count' = PageCount(all_size, rows)
          /\ n' = 0
          /\ pc' = "next_page"
          /\ fault' = fault
  /\ UNCHANGED <<args, all_size, list_resp_num_found, id_lst, id, jorei_info, data,
                 files, index_file, flushed, trace, requests>>

\* line 238: stream.next() yields the next page index, or the loop ends
StreamNext ==
  /\ pc = "next_page"
  /\ pc' = IF n <= page_count THEN "list" ELSE "flush"
  /\ UNCHANGED <<args, fault, all_size, page_count, n, list_resp_num_found, id_lst, id,
                 jorei_info, data, files, index_file, flushed, trace, requests>>

\* lines 239-243: the list query of page n and its ids
ListFetch ==
  /\ pc = "list"
  /\ LET url == gen_list_url(start, end, n, rows) IN
     /\ requests' = Append(requests, [phase |-> "paging", n |-> n, url |-> url])
     /\ \/ /\ \E nf \in NumFoundLater : list_resp_num_found' = nf
           /\ id_lst' = IdList(ListDocs(url))
           /\ pc' = "next_id"
           /\ fault' = fault
           /\ trace' = Append(trace, Event("list", n, 0, TRUE))
        \/ /\ UNCHANGED <<list_resp_num_found, id_lst>>
           /\ pc' = TryErr("list")
           /\ fault' = "FetchError"
           /\ trace' = Append(trace, Event("list", n, 0, FALSE))
  /\ UNCHANGED <<args, all_size, page_count, n, id, jorei_info, data, files,
                 index_file, flushed>>

\* line 244: id_stream.next() yields the next id of the page, or the page ends
IdStreamNext ==
  /\ pc = "next_id"
  /\ IF id_lst = <<>>
     THEN /\ pc' = "sleep"
          /\ UNCHANGED <<id_lst, id>>
     ELSE /\ id' = Head(id_lst)
          /\ id_lst' = Tail(id_lst)
          /\ pc' = "detail"
  /\ UNCHANGED <<args, fault, all_size, page_count, n, list_resp_num_found, jorei_info,
                 data, files, index_file, flushed, trace, requests>>

\* lines 245-247: the detail query of id, then docs[0] of its response
DetailFetch ==
  /\ pc = "detail"
  /\ \/ \E d \in DetailDocs(gen_jorei_url(id)) :
          /\ jorei_info' = [received |-> TRUE, docs |-> d]
          /\ IF d = <<>>
             THEN /\ pc' = "panicked"
                  /\ fault' = "IndexOutOfBounds"
                  /\ trace' = Append(trace, Event("detail", n, id, FALSE))
             ELSE /\ pc' = "normalize"
                  /\ fault' = fault
                  /\ trace' = Append(trace, Event("detail", n, id, TRUE))
     \/ /\ jorei_info' = NoResponse
        /\ pc' = TryErr("detail")
        /\ fault' = "FetchError"
        /\ trace' = Append(trace, Event("detail", n, id, FALSE))
  /\ UNCHANGED <<args, all_size, page_count, n, list_resp_num_found, id_lst, id, data,
                 files, index_file, flushed, requests>>

\* line 248: the record to persist
GenJoreiData ==
  /\ pc = "normalize"
  /\ LET res == gen_jorei_data(jorei_info.docs[1]) IN
     IF res[1] = "panic"
     THEN /\ pc' = "panicked"
          /\ fault' = "UnwrapNone"
          /\ data' = data
          /\ trace' = Append(trace, Event("normalize", n, id, FALSE))
     ELSE /\ pc' = "write"
          /\ fault' = fault
          /\ data' = res[2]
          /\ trace' = Append(trace, Event("normalize", n, id, TRUE))
  /\ UNCHANGED <<args, all_size, page_count, n, list_resp_num_found, id_lst, id,
                 jorei_info, files, index_file, flushed, requests>>

\* faulty variant: the Result of write_docs is dropped
WriteDocsErrIgnored ==
  /\ pc = "write"
  /\ \/ /\ files' = WriteFile(files, id, <<data>>)
        /\ trace' = Append(trace, Event("write", n, id, TRUE))
     \/ /\ files' \in {files, WriteFile(files, id, <<>>)}
        /\ trace' = Append(trace, Event("write", n, id, FALSE))
  /\ pc' = "append"
  /\ UNCHANGED <<args, fault, all_size, page_count, n, list_resp_num_found, id_lst, id,
                 jorei_info, data, index_file, flushed, requests>>

\* lines 207-213, 249: <output>/<id>.json is created, written and flushed
WriteDocs ==
  /\ pc = "write"
  /\ \/ /\ files' = WriteFile(files, id, <<data>>)
        /\ pc' = "append"
        /\ fault' = fault
        /\ trace' = Append(trace, Event("write", n, id, TRUE))
     \/ /\ files' \in {files, WriteFile(files, id, <<>>)}
        /\ pc' = TryErr("write")
        /\ fault' = "IOError"
        /\ trace' = Append(trace, Event("write", n, id, FALSE))
  /\ UNCHANGED <<args, all_size, page_count, n, list_resp_num_found, id_lst, id,
                 jorei_info, data, index_file, flushed, requests>>

\* lines 250-251: the summary of the record is appended to the index
WriteValueLst ==
  /\ pc = "append"
  /\ \/ /\ index_file' = Append(index_file, gen_jorei_info(jorei_info.docs[1]))
        /\ pc' = "next_id"
        /\ fault' = fault
        /\ trace' = Append(trace, Event("append", n, id, TRUE))
     \/ /\ index_file' = index_file
        /\ pc' = TryErr("append")
        /\ fault' = "IOError"
        /\ trace' = Append(trace, Event("append", n, id, FALSE))
  /\ UNCHANGED <<args, all_size, page_count, n, list_resp_num_found, id_lst, id,
                 jorei_info, data, files, flushed, requests>>

\* faulty variant: the index is flushed inside the page loop
SleepThenFlush ==
  /\ pc = "sleep"
  /\ trace' = trace \o <<Event("sleep", n, 0, TRUE), Event("flush", 0, 0, TRUE)>>
  /\ flushed' = flushed + 1
  /\ n' = n + 1
  /\ pc' = "next_page"
  /\ UNCHANGED <<args, fault, all_size, page_count, list_resp_num_found, id_lst, id,
                 jorei_info, data, files, index_file, requests>>

\* faulty variant: no sleep after the final page
SleepOnlyBetweenPages ==
  /\ pc = "sleep"
  /\ trace' = IF n < page_count THEN Append(trace, Event("sleep", n, 0, TRUE)) ELSE trace
  /\ n' = n + 1
  /\ pc' = "next_page"
  /\ UNCHANGED <<args, fault, all_size, page_count, list_resp_num_found, id_lst, id,
                 jorei_info, data, files, index_file, flushed, requests>>

\* lines 263-265: the sleep that ends the page
Sleep ==
  /\ pc = "sleep"
  /\ trace' = Append(trace, Event("sleep", n, 0, TRUE))
  /\ n' = n + 1
  /\ pc' = "next_page"
  /\ UNCHANGED <<args, fault, all_size, page_count, list_resp_num_found, id_lst, id,
                 jorei_info, data, files, index_file, flushed, requests>>

\* lines 266-268: the index is flushed and main returns Ok
FlushFileValueLst ==
  /\ pc = "flush"
  /\ \/ /\ flushed' = flushed + 1
        /\ pc' = "done"
        /\ fault' = fault
        /\ trace' = Append(trace, Event("flush", 0, 0, TRUE))
     \/ /\ flushed' = flushed
        /\ pc' = TryErr("flush")
        /\ fault' = "IOError"
        /\ trace' = Append(trace, Event("flush", 0, 0, FALSE))
  /\ UNCHANGED <<args, all_size, page_count, n, list_resp_num_found, id_lst, id,
                 jorei_info, data, files, index_file, requests>>

Next ==
  \/ Bootstrap
  \/ GenFileValueLst
  \/ PageRange
  \/ StreamNext
  \/ ListFetch
  \/ IdStreamNext
  \/ DetailFetch
  \/ GenJoreiData
  \/ WriteDocs
  \/ WriteValueLst
  \/ Sleep
  \/ FlushFileValueLst

Spec == Init /\ [][Next]_vars

(* --------------------------- reading the run --------------------------- *)
Range(s) == {s[i] : i \in 1..Len(s)}
Distinct(s) == \A i, j \in 1..Len(s) : i # j => s[i] # s[j]
Last(s) == s[Len(s)]
Performed(op) == SelectSeq(trace, LAMBDA e : e.op = op /\ e.ok)
Attempted(op) == SelectSeq(trace, LAMBDA e : e.op = op)
PagingRequests == SelectSeq(requests, LAMBDA q : q.phase = "paging")
Stopped == pc \in {"aborted", "panicked"}

RECURSIVE Flatten(_)
Flatten(ss) == IF ss = <<>> THEN <<>> ELSE Head(ss) \o Flatten(Tail(ss))

\* the ids of the corpus at offsets k*rows .. min((k+1)*rows, T)-1
PageSlice(k) == SubSeq(corpus, k * rows + 1, Min((k + 1) * rows, Len(corpus)))

\* the ids in the order the list responses of the run returned them
ReturnOrder ==
  LET lists == Performed("list")
  IN  Flatten([i \in 1..Len(lists) |-> PageSlice(lists[i].n)])

IdsOf(entries) == [i \in 1..Len(entries) |-> entries[i].id]

(* ------------------------------- claims -------------------------------- *)

\* C1: a run that completes without failure over a static corpus of T records
\* with pairwise distinct identifiers leaves exactly one complete record file
\* per identifier, named by it, none missing and none extra, and an index of
\* exactly T entries, one per identifier.
C1_OneFileAndOneEntryPerIdentifier ==
  (pc = "done" /\ Distinct(corpus)) =>
    /\ {f.name : f \in files} = Range(corpus)
    /\ Cardinality(files) = Len(corpus)
    /\ \A f \in files : Len(f.content) = 1 /\ f.content[1].id = f.name
    /\ Len(index_file) = Len(corpus)
    /\ \A x \in Range(corpus) :
         Cardinality({i \in 1..Len(index_file) : index_file[i].id = x}) = 1

C1_Witness ==
  /\ pc = "done"
  /\ Distinct(corpus)
  /\ Len(corpus) = 3
  /\ rows = 2
  /\ Cardinality(files) = 3

\* C2: the paging list queries of a run are issued for the page indices
\* 0, 1, 2, ... in increasing order, each once, never beyond floor(T/P) for
\* the totalCount T of the bootstrap response; a run that completes has issued
\* exactly floor(T/P)+1 of them, whatever totalCount later responses carried.
C2_PagesZeroToFloorTOverP ==
  LET q == PagingRequests IN
  /\ \A i \in 1..Len(q) : q[i].n = i - 1
  /\ Len(q) > 0 => Len(q) <= (all_size \div rows) + 1
  /\ pc \in {"flush", "done"} => Len(q) = (all_size \div rows) + 1
  /\ Len(q) > 0 => page_count = all_size \div rows
  /\ pc # "bootstrap" /\ Len(trace) > 0 /\ trace[1].ok => all_size = Len(corpus)

C2_Witness ==
  /\ pc = "done"
  /\ all_size = 2
  /\ rows = 1
  /\ Len(PagingRequests) = 3
  /\ list_resp_num_found # all_size

\* C3: the steps of the run follow the order of the API's answers: a detail
\* fetch follows the list query of its page or the index append of the
\* previous identifier, normalize follows the detail fetch, the file write
\* follows normalize and the index append follows the file write, all for the
\* same identifier; page indices never decrease along the run; the identifiers
\* handled and the index entries are a prefix of the order of return.
C3_ProcessedInReturnOrder ==
  /\ \A i \in 2..Len(trace) :
       LET e == trace[i]
           p == trace[i - 1]
       IN  /\ e.op = "detail" =>
                /\ p.ok
                /\ p.op \in {"list", "append"}
                /\ p.n = e.n
           /\ e.op = "normalize" => p.op = "detail" /\ p.ok /\ p.id = e.id /\ p.n = e.n
           /\ e.op = "write" => p.op = "normalize" /\ p.ok /\ p.id = e.id /\ p.n = e.n
           /\ e.op = "append" => p.op = "write" /\ p.ok /\ p.id = e.id /\ p.n = e.n
           /\ e.op = "list" /\ e.n > 0 => p.op = "sleep" /\ p.n = e.n - 1
           /\ e.op = "sleep" => p.op \in {"list", "append"} /\ p.ok /\ p.n = e.n
  /\ LET d == IdsOf(Attempted("detail"))
     IN  /\ Len(d) <= Len(ReturnOrder)
         /\ d = SubSeq(ReturnOrder, 1, Len(d))
  /\ LET x == IdsOf(index_file)
     IN  /\ Len(x) <= Len(ReturnOrder)
         /\ x = SubSeq(ReturnOrder, 1, Len(x))
  /\ \A i \in 1..Len(trace) :
       trace[i].op = "sleep" =>
         Len(SelectSeq(SubSeq(trace, 1, i), LAMBDA e : e.op = "append" /\ e.ok /\ e.n = trace[i].n))
           = Len(PageSlice(trace[i].n))
  /\ pc = "done" => IdsOf(index_file) = ReturnOrder

C3_Witness ==
  /\ pc = "done"
  /\ rows = 2
  /\ IdsOf(index_file) = <<2, 3, 1>>

\* C4: a failed step is the last step of the run: main has stopped, nothing was
\* attempted after it, and the index was not flushed.  When the write of the
\* 2nd of 3 records fails, the 3rd record's detail was never fetched and the
\* file of the 1st record is on disk.
C4_FailureAbortsTheRun ==
  /\ \A i \in 1..Len(trace) : ~trace[i].ok => i = Len(trace) /\ Stopped
  /\ fault # "none" <=> Stopped
  /\ Stopped => flushed = 0 /\ Len(Performed("flush")) = 0
  /\ (/\ Len(trace) > 0
      /\ Last(trace).op = "write"
      /\ ~Last(trace).ok
      /\ Len(Performed("write")) = 1
      /\ Len(corpus) = 3)
       => /\ Len(Attempted("detail")) = 2
          /\ \E f \in files : f.name = corpus[1]
          /\ Distinct(corpus) => [name |-> corpus[1],
                                  content |-> <<[id |-> corpus[1], file_type |-> "html"]>>] \in files

C4_Witness ==
  /\ Len(trace) > 0
  /\ Last(trace).op = "write"
  /\ ~Last(trace).ok
  /\ Len(Performed("write")) = 1
  /\ Len(corpus) = 3
  /\ Distinct(corpus)
  /\ rows = 4
  /\ pc = "aborted"

\* C5: an empty docs list in a detail response makes the detail fetch fail
\* with a DecodeError/NotFoundError value (main returns Err, there is no
\* out-of-bounds fault), and nothing is written or appended for the id.
C5_EmptyDocsIsAnErrorValue ==
  (jorei_info.received /\ jorei_info.docs = <<>>) =>
    /\ pc = "aborted"
    /\ fault \in {"DecodeError", "NotFoundError"}
    /\ Last(trace).op = "detail"

\* C6: the index is flushed at most once; a run that completes has flushed it
\* exactly once, as its last step, right after the sleep of page floor(T/P);
\* a flush is never followed by another step, so by no index append.
C6_FlushOnceAfterLastPage ==
  /\ flushed <= 1
  /\ Len(Attempted("flush")) <= 1
  /\ flushed = Len(Performed("flush"))
  /\ \A i \in 1..Len(trace) :
       trace[i].op = "flush" =>
         /\ i = Len(trace)
         /\ i > 1
         /\ trace[i - 1].op = "sleep"
         /\ trace[i - 1].n = all_size \div rows
         /\ Len(index_file) = Len(Performed("append"))
  /\ pc = "done" <=> flushed = 1

C6_Witness ==
  /\ pc = "done"
  /\ flushed = 1
  /\ Len(index_file) = 3
  /\ Len(Performed("sleep")) = 2

\* C7: a sleep follows the last index append of its page (or the list query
\* of an empty page) once every identifier of the page was handled, and is
\* followed only by the list query of the next page or by the flush; the
\* sleeps are those of pages 0, 1, 2, ... and a run that completes has slept
\* floor(T/P)+1 times, once per list query.
C7_OneSleepPerPage ==
  LET sl == Performed("sleep") IN
  /\ \A i \in 1..Len(sl) : sl[i].n = i - 1
  /\ \A i \in 1..Len(trace) :
       /\ trace[i].op = "sleep" =>
            /\ i > 1
            /\ trace[i - 1].ok
            /\ trace[i - 1].n = trace[i].n
            /\ \/ trace[i - 1].op = "append"
               \/ trace[i - 1].op = "list" /\ PageSlice(trace[i].n) = <<>>
            /\ Len(SelectSeq(SubSeq(trace, 1, i),
                             LAMBDA e : e.op = "detail" /\ e.n = trace[i].n))
                 = Len(PageSlice(trace[i].n))
            /\ i < Len(trace) =>
                 \/ trace[i + 1].op = "list" /\ trace[i + 1].n = trace[i].n + 1
                 \/ trace[i + 1].op = "flush"
       /\ trace[i].op = "list" /\ trace[i].n > 0 =>
            trace[i - 1].op = "sleep" /\ trace[i - 1].n = trace[i].n - 1
       /\ trace[i].op = "detail" => trace[i - 1].op # "sleep"
  /\ Len(sl) <= Len(Attempted("list"))
  /\ pc \in {"flush", "done"} =>
       /\ Len(sl) = (all_size \div rows) + 1
       /\ Len(sl) = Len(Performed("list"))

C7_Witness ==
  /\ pc = "done"
  /\ all_size = 2
  /\ rows = 2
  /\ Len(Performed("sleep")) = 2
  /\ PageSlice(1) = <<>>

C9_OffsetIsPageTimesRows ==
  /\ \A i \in 1..Len(requests) :
       /\ requests[i].url.start = requests[i].n * rows
       /\ requests[i].url.rows = rows
  /\ Len(requests) > 0 => requests[1].phase = "bootstrap" /\ requests[1].url.start = 0
  /\ \A k \in 1..Len(PagingRequests) : PagingRequests[k].url.start = (k - 1) * rows

C9_Witness ==
  /\ pc = "done"
  /\ start = <<>>
  /\ end = <<5>>
  /\ rows = 2
  /\ Len(PagingRequests) = 2
  /\ PagingRequests[2].url.start = 2

\* C10: in every state, stopped runs included, the i-th index entry is the
\* summary of the i-th record whose file write succeeded; the index never has
\* more entries than there were successful file writes, and the file writes
\* lead by at most one.
C10_IndexFollowsFileWrites ==
  LET w == Performed("write")
      a == Performed("append")
  IN  /\ Len(index_file) = Len(a)
      /\ Len(a) <= Len(w)
      /\ Len(w) <= Len(a) + 1
      /\ \A i \in 1..Len(index_file) : index_file[i].id = w[i].id
      /\ \A i \in 1..Len(trace) :
           trace[i].op = "append" /\ trace[i].ok =>
             /\ i > 1
             /\ trace[i - 1] = Event("write", trace[i].n, trace[i].id, TRUE)

C10_Witness ==
  /\ Stopped
  /\ Len(index_file) = 1
  /\ Len(Performed("write")) = 2

====
